---- MODULE Spec2Model ----
(***************************************************************************)
(* Genus meter dashboard (src/meter.py): a Streamlit script over one       *)
(* PostgreSQL table, meter_data.  Every user interaction re-runs the       *)
(* script once; a run renders either the dashboard (show_dashboard) or the *)
(* admin panel (show_admin).  The model has one action per kind of run.    *)
(*                                                                         *)
(* Calendar dates are day numbers 1..MaxDate.  The table is a bag of rows  *)
(* (the id column is never read by the script and is left out).            *)
(*                                                                         *)
(* The store may fail any call: a run is given the number of calls the     *)
(* store serves (or, for a run with one call, whether it serves it); a     *)
(* call that is not served raises.  Runs of the one session modelled here  *)
(* execute one after another.  A run of the admin panel has either the     *)
(* save button pressed or a file in the uploader; a run with both is the   *)
(* save run followed by the upload run.                                    *)
(*                                                                         *)
(* Not modelled: the text of labels (strftime, kfmt), the chart and the    *)
(* styling; the page records the frame that is drawn and the KPI values.   *)
(***************************************************************************)
EXTENDS Integers, Sequences, FiniteSets, Bags, TLC

\* ------------------------------------------------------------------ bounds
MaxDate == 3       \* calendar days 1..MaxDate
MaxRows == 2       \* rows the table may hold (caps its growth)

\* --------------------------------------------------------------- constants
ALLOWED_PACKAGES ==
    <<"TN-95", "TN-96", "TN-97", "TN-58", "TN-59", "TN-60", "TN-32", "TN-33", "TN-34">>

ADMIN_USER == "admin"
ADMIN_PASS == "12345"

\* rows of the admin preview, df_all.sort_values(...).head(20)
PreviewRows == 20

num_cols == <<"wc_mi", "dt", "ci", "mi", "in_house", "supervisory">>

Dates == 1..MaxDate

\* packages the bounded inputs use: the first two of ALLOWED_PACKAGES
Packages == {ALLOWED_PACKAGES[1], ALLOWED_PACKAGES[2]}

Range(s) == {s[i] : i \in DOMAIN s}

\* ------------------------------------------------------------ cell values
\* A value as pandas sees it: an integer, text, a missing cell, or NaN.
IntCell(n) == [kind |-> "int", val |-> n]
TextCell == [kind |-> "text", val |-> 0]
MissingCell == [kind |-> "missing", val |-> 0]
NaN == [kind |-> "nan", val |-> 0]

\* pd.to_numeric(x, errors="coerce"): what is not a number becomes NaN
to_numeric(cell) == IF cell.kind = "int" THEN cell ELSE NaN

\* .fillna(v)
fillna(cell, v) == IF cell.kind = "nan" THEN IntCell(v) ELSE cell

\* .astype(int)
astype_int(cell) == cell.val

\* pd.to_numeric(df[c], errors="coerce").fillna(0).astype(int)
CoerceInt(cell) == astype_int(fillna(to_numeric(cell), 0))

\* ------------------------------------------------------------------ state
VARIABLES
    store,      \* table meter_data: a bag of rows
    cache,      \* st.cache_data entry of load_data: <<>> (none) or <<df>>
    is_admin,   \* st.session_state.is_admin
    page,       \* what the last run of the script rendered
    writer,     \* a session inside upsert_row: its position, row, last row written
    reader      \* a session inside load_data: its position and its frame

vars == <<store, cache, is_admin, page, writer, reader>>

\* the two sessions that share the cache of load_data
sessions == <<writer, reader>>

\* a row of meter_data
MkRow(d, p, n) ==
    [date |-> d, package |-> p, wc_mi |-> n.wc_mi, dt |-> n.dt, ci |-> n.ci,
     mi |-> n.mi, in_house |-> n.in_house, supervisory |-> n.supervisory]

Nums(a, b, c, d, e, f) ==
    [wc_mi |-> a, dt |-> b, ci |-> c, mi |-> d, in_house |-> e, supervisory |-> f]

\* ------------------------------------------------------------- the table
\* rows that collide with `row` on the unique index idx_meter_date_package
Conflicts(table, row) ==
    {r \in BagToSet(table) : r.date = row.date /\ r.package = row.package}

\* DO UPDATE that adds the new values to the stored ones
DoUpdateAccumulate(old, row) ==
    [old EXCEPT !.wc_mi = @ + row.wc_mi, !.dt = @ + row.dt, !.ci = @ + row.ci,
                !.mi = @ + row.mi, !.in_house = @ + row.in_house,
                !.supervisory = @ + row.supervisory]

\* DO UPDATE SET wc_mi = EXCLUDED.wc_mi, ... (all six numeric columns)
DoUpdate(old, row) ==
    [old EXCEPT !.wc_mi = row.wc_mi, !.dt = row.dt, !.ci = row.ci,
                !.mi = row.mi, !.in_house = row.in_house,
                !.supervisory = row.supervisory]

\* plain INSERT on a table without the unique index
InsertOnly(table, row) == table (+) SetToBag({row})

\* INSERT ... ON CONFLICT (date, package) DO UPDATE SET ...
UpsertStmt(table, row) ==
    LET hit == Conflicts(table, row)
    IN  IF hit = {} THEN table (+) SetToBag({row})
        ELSE LET old == CHOOSE r \in hit : TRUE
             IN  (table (-) SetToBag({old})) (+) SetToBag({DoUpdate(old, row)})

\* A failed transaction that keeps what the statement wrote (autocommit).
TransactionNoRollback(table, row, db_ok) ==
    [committed |-> db_ok, table |-> UpsertStmt(table, row)]

\* with engine.begin() as conn: conn.execute(stmt, row)
\* commits when the block ends normally, rolls back when it raises.
\* db_ok: the store serves this call (it can be reached and the statement
\* does not fail).
Transaction(table, row, db_ok) ==
    IF db_ok
    THEN [committed |-> TRUE, table |-> UpsertStmt(table, row)]
    ELSE [committed |-> FALSE, table |-> table]

\* ------------------------------------------------------------- upsert_row
\* upsert_row that forgets clear_cache()
upsert_row_keep_cache(w, row, db_ok) ==
    LET t == Transaction(w.store, row, db_ok)
    IN  [store |-> t.table, cache |-> w.cache, raised |-> ~t.committed]

\* upsert_row(row): the transaction, then clear_cache(); when the transaction
\* raises, the exception leaves upsert_row before clear_cache() is reached.
\* w = [store, cache]; the result adds `raised`.
upsert_row(w, row, db_ok) ==
    LET t == Transaction(w.store, row, db_ok)
    IN  IF t.committed
        THEN [store |-> t.table, cache |-> <<>>, raised |-> FALSE]
        ELSE [store |-> t.table, cache |-> w.cache, raised |-> TRUE]

\* --------------------------------------------------------------- load_data
MinDate(rows) == CHOOSE d \in {r.date : r \in rows} : \A r \in rows : d <= r.date
MaxDateOf(rows) == CHOOSE d \in {r.date : r \in rows} : \A r \in rows : d >= r.date

\* SELECT ... FROM meter_data ORDER BY date ASC: every ordering of the rows
\* that ascends by date (the order of rows of one date is not fixed).
RECURSIVE QueryResults(_)
QueryResults(table) ==
    IF BagToSet(table) = {} THEN {<<>>}
    ELSE LET lo == MinDate(BagToSet(table))
             firsts == {r \in BagToSet(table) : r.date = lo}
         IN  UNION {{<<r>> \o s : s \in QueryResults(table (-) SetToBag({r}))} : r \in firsts}

\* Total_Manpower without the supervisory column
TotalManpowerNoSup(r) == r.ci + r.mi + r.in_house

\* df["Total_Manpower"] = df["ci"] + df["mi"] + df["in_house"] + df["supervisory"]
TotalManpower(r) == r.ci + r.mi + r.in_house + r.supervisory

\* df["Total_WC_DT"] = df["wc_mi"] + df["dt"]
TotalWcDt(r) == r.wc_mi + r.dt

\* one row of the frame load_data returns: the numeric columns coerced to
\* int, and the two computed columns
PrepareRow(q) ==
    LET r == [date |-> q.date, package |-> q.package,
              wc_mi |-> CoerceInt(IntCell(q.wc_mi)), dt |-> CoerceInt(IntCell(q.dt)),
              ci |-> CoerceInt(IntCell(q.ci)), mi |-> CoerceInt(IntCell(q.mi)),
              in_house |-> CoerceInt(IntCell(q.in_house)),
              supervisory |-> CoerceInt(IntCell(q.supervisory))]
    IN  [date |-> r.date, package |-> r.package, wc_mi |-> r.wc_mi, dt |-> r.dt,
         ci |-> r.ci, mi |-> r.mi, in_house |-> r.in_house,
         supervisory |-> r.supervisory,
         Total_Manpower |-> TotalManpower(r), Total_WC_DT |-> TotalWcDt(r)]

\* the frame built from a query result (an empty result is returned as it is)
Prepare(q) == [i \in DOMAIN q |-> PrepareRow(q[i])]

\* load_data() under @st.cache_data: the cached frame on a hit; on a miss the
\* query is run (it raises when the store cannot be reached) and its frame is
\* cached.  The set of possible outcomes [df, cache, raised].
load_data(w, db_ok) ==
    IF w.cache # <<>>
    THEN {[df |-> w.cache[1], cache |-> w.cache, raised |-> FALSE]}
    ELSE IF ~db_ok
    THEN {[df |-> <<>>, cache |-> <<>>, raised |-> TRUE]}
    ELSE {[df |-> Prepare(q), cache |-> <<Prepare(q)>>, raised |-> FALSE] :
            q \in QueryResults(w.store)}

\* ------------------------------------------------------------ the page
NoKpi == [total_meters |-> 0, peak_install |-> 0, peak_install_date |-> 0,
          peak_mp |-> 0, peak_mp_date |-> 0]

NoRow == [date |-> 0, package |-> ""]

\* a session that is in neither upsert_row nor load_data
IdleWriter == [pc |-> "idle", row |-> NoRow, done |-> NoRow]
IdleReader == [pc |-> "idle", df |-> <<>>]

\* A rendered page.  msg: the st.info / st.error / st.success message;
\* exc: the function whose uncaught exception ended the run ("" when none);
\* called: graph_and_table was called; grp: the frame it drew; rendered: the
\* KPI cards, chart and table were produced; row: the row the form saved;
\* count: rows the CSV upload reports; preview: the admin preview table.
BlankPage ==
    [mode |-> "", msg |-> "", exc |-> "", view |-> "", start |-> 0, end |-> 0, pkg |-> "",
     called |-> FALSE, grp |-> <<>>, rendered |-> FALSE, kpi |-> NoKpi,
     row |-> NoRow, count |-> 0, preview |-> <<>>]

\* --------------------------------------------------------- graph_and_table
\* idxmax that keeps the last of several maxima
RECURSIVE IdxMaxLastScan(_, _, _, _)
IdxMaxLastScan(s, c, i, best) ==
    IF i > Len(s) THEN best
    ELSE IdxMaxLastScan(s, c, i + 1, IF s[i][c] >= s[best][c] THEN i ELSE best)

\* Series.idxmax(): the index of the first occurrence of the maximum
RECURSIVE IdxMaxScan(_, _, _, _)
IdxMaxScan(s, c, i, best) ==
    IF i > Len(s) THEN best
    ELSE IdxMaxScan(s, c, i + 1, IF s[i][c] > s[best][c] THEN i ELSE best)

idxmax_last(s, c) == IdxMaxLastScan(s, c, 2, 1)

idxmax(s, c) == IdxMaxScan(s, c, 2, 1)

\* Series.sum()
RECURSIVE ColSum(_, _)
ColSum(s, c) == IF s = <<>> THEN 0 ELSE Head(s)[c] + ColSum(Tail(s), c)

\* graph_and_table(df_view): nothing but an st.info for an empty frame;
\* otherwise the KPIs, the chart and the table, all over the rows of df_view.
graph_and_table(pg, df_view) ==
    IF df_view = <<>>
    THEN [pg EXCEPT !.called = TRUE, !.msg = "No data available for the selected filters."]
    ELSE LET peak_m_idx == idxmax(df_view, "Total_WC_DT")
             peak_mp_idx == idxmax(df_view, "Total_Manpower")
         IN  [pg EXCEPT !.called = TRUE,
                        !.grp = df_view,
                        !.rendered = TRUE,
                        !.kpi = [total_meters |-> ColSum(df_view, "Total_WC_DT"),
                                 peak_install |-> df_view[peak_m_idx].Total_WC_DT,
                                 peak_install_date |-> df_view[peak_m_idx].date,
                                 peak_mp |-> df_view[peak_mp_idx].Total_Manpower,
                                 peak_mp_date |-> df_view[peak_mp_idx].date]]

\* ---------------------------------------------------------- show_dashboard
RECURSIVE SortedSeq(_)
SortedSeq(S) ==
    IF S = {} THEN <<>>
    ELSE LET m == CHOOSE x \in S : \A y \in S : x <= y
         IN  <<m>> \o SortedSeq(S \ {m})

\* the sum of column c over the rows of df whose date is d
RECURSIVE GroupSum(_, _, _)
GroupSum(df, d, c) ==
    IF df = <<>> THEN 0
    ELSE (IF Head(df).date = d THEN Head(df)[c] ELSE 0) + GroupSum(Tail(df), d, c)

\* df.groupby("date")[[...eight columns...]].sum().reset_index():
\* one row per date that occurs in df, in ascending date order
GroupByDate(df) ==
    LET keys == SortedSeq({df[i].date : i \in DOMAIN df})
    IN  [k \in DOMAIN keys |->
            [date |-> keys[k],
             wc_mi |-> GroupSum(df, keys[k], "wc_mi"),
             dt |-> GroupSum(df, keys[k], "dt"),
             ci |-> GroupSum(df, keys[k], "ci"),
             mi |-> GroupSum(df, keys[k], "mi"),
             in_house |-> GroupSum(df, keys[k], "in_house"),
             supervisory |-> GroupSum(df, keys[k], "supervisory"),
             Total_Manpower |-> GroupSum(df, keys[k], "Total_Manpower"),
             Total_WC_DT |-> GroupSum(df, keys[k], "Total_WC_DT")]]

\* df[(df["date"] >= start_date) & (df["date"] <= end_date)]
DateMask(df, start_date, end_date) ==
    LET InRange(r) == r.date >= start_date /\ r.date <= end_date
    IN  SelectSeq(df, InRange)

\* a package filter that keeps every row
PackageMaskAll(df_range, pkg) == df_range

\* df_range[df_range["package"] == pkg]
PackageMask(df_range, pkg) ==
    LET IsPkg(r) == r.package = pkg
    IN  SelectSeq(df_range, IsPkg)

\* show_dashboard without the start_date > end_date check
show_dashboard_no_check(df, view, start_date, end_date, pkg) ==
    LET pg == [BlankPage EXCEPT !.mode = "Dashboard", !.view = view,
                                !.start = start_date, !.end = end_date, !.pkg = pkg]
        df_range == DateMask(df, start_date, end_date)
    IN  IF df = <<>>
        THEN [BlankPage EXCEPT !.mode = "Dashboard", !.msg = "No data in database yet."]
        ELSE IF view = "Combined View"
        THEN graph_and_table(pg, GroupByDate(df_range))
        ELSE graph_and_table(pg, GroupByDate(PackageMask(df_range, pkg)))

\* show_dashboard() after load_data() returned df, with the widget values
\* view, start_date, end_date and (Package Wise View) pkg
show_dashboard(df, view, start_date, end_date, pkg) ==
    LET pg == [BlankPage EXCEPT !.mode = "Dashboard", !.view = view,
                                !.start = start_date, !.end = end_date, !.pkg = pkg]
        df_range == DateMask(df, start_date, end_date)
    IN  IF df = <<>>
        THEN [BlankPage EXCEPT !.mode = "Dashboard", !.msg = "No data in database yet."]
        ELSE IF start_date > end_date
        THEN [pg EXCEPT !.msg = "Start Date cannot be after End Date."]
        ELSE IF view = "Combined View"
        THEN graph_and_table(pg, GroupByDate(df_range))
        ELSE graph_and_table(pg, GroupByDate(PackageMask(df_range, pkg)))

\* the widget values a run of the dashboard can have for the frame df: both
\* date inputs lie in [min_d, max_d]; the package is chosen in Package Wise
\* View only; no widget is drawn for an empty frame
DashboardInputs(df) ==
    IF df = <<>>
    THEN {[view |-> "", start |-> 0, end |-> 0, pkg |-> ""]}
    ELSE LET min_d == MinDate(Range(df))
             max_d == MaxDateOf(Range(df))
         IN  {[view |-> "Combined View", start |-> s, end |-> e, pkg |-> ""] :
                 s \in min_d..max_d, e \in min_d..max_d}
             \cup
             {[view |-> "Package Wise View", start |-> s, end |-> e, pkg |-> p] :
                 s \in min_d..max_d, e \in min_d..max_d, p \in Packages}

\* ------------------------------------------------------------ CSV upload
\* Text is a sequence of pieces; the piece " " is white space.
RECURSIVE LStrip(_)
LStrip(t) == IF t # <<>> /\ Head(t) = " " THEN LStrip(Tail(t)) ELSE t

RECURSIVE RStrip(_)
RStrip(t) == IF t # <<>> /\ t[Len(t)] = " " THEN RStrip(SubSeq(t, 1, Len(t) - 1)) ELSE t

\* str.strip()
strip(t) == RStrip(LStrip(t))

\* df_csv.rename(columns=col_map), for one stripped header
col_map(h) ==
    CASE h = <<"Date">> -> "date"
      [] h = <<"Package">> -> "package"
      [] h = <<"WC-MI">> -> "wc_mi"
      [] h = <<"DT">> -> "dt"
      [] h = <<"CI">> -> "ci"
      [] h = <<"MI">> -> "mi"
      [] h = <<"IN-HOUSE">> -> "in_house"
      [] h = <<"Supervisory">> -> "supervisory"
      [] h = <<"sum">> -> "sum_col"
      [] OTHER -> IF Len(h) = 1 THEN h[1] ELSE "?"

required == <<"date", "package", "wc_mi", "dt", "ci", "mi", "in_house", "supervisory">>

\* the required columns the file's header lacks
MissingColumns(columns) ==
    LET have == {col_map(strip(columns[i])) : i \in DOMAIN columns}
    IN  {required[i] : i \in DOMAIN required} \ have

\* a date cell: a parsable date, or text that parses to NaT
DateCell(d) == [kind |-> "date", val |-> d]
BadDateCell == [kind |-> "text", val |-> 0]

\* parse_date_col, one cell: the date, or NaT (0)
parse_date_col(cell) == IF cell.kind = "date" THEN cell.val ELSE 0

\* the rows of the file that survive dropna(subset=["date"]) and the
\* isin(ALLOWED_PACKAGES) filter, as the dicts handed to upsert_row
CleanRows(rows) ==
    LET Keep(r) == /\ parse_date_col(r.date) # 0
                   /\ Len(strip(r.package)) = 1
                   /\ strip(r.package)[1] \in Range(ALLOWED_PACKAGES)
        kept == SelectSeq(rows, Keep)
    IN  [i \in DOMAIN kept |->
            [date |-> parse_date_col(kept[i].date),
             package |-> strip(kept[i].package)[1],
             wc_mi |-> CoerceInt(kept[i].nums.wc_mi),
             dt |-> CoerceInt(kept[i].nums.dt),
             ci |-> CoerceInt(kept[i].nums.ci),
             mi |-> CoerceInt(kept[i].nums.mi),
             in_house |-> CoerceInt(kept[i].nums.in_house),
             supervisory |-> CoerceInt(kept[i].nums.supervisory)]]

\* for _, r in df_csv.iterrows(): upsert_row(row); count += 1
\* The store serves the first `up` calls of the run and cannot be reached
\* after them.  An exception of upsert_row ends the loop.
RECURSIVE UpsertLoop(_, _, _, _)
UpsertLoop(w, rows, i, up) ==
    IF i > Len(rows) THEN w
    ELSE LET o == upsert_row(w, rows[i], i <= up)
         IN  IF o.raised
             THEN [store |-> o.store, cache |-> o.cache, raised |-> TRUE, count |-> w.count]
             ELSE UpsertLoop([store |-> o.store, cache |-> o.cache, raised |-> FALSE,
                              count |-> w.count + 1], rows, i + 1, up)

\* handle_csv_upload up to its loop: the st.error that ends it early, or the
\* row dicts the loop will hand to upsert_row
ReadCsv(uploaded) ==
    IF ~uploaded.readable
    THEN [error |-> "Unable to read CSV", rows |-> <<>>]
    ELSE IF MissingColumns(uploaded.columns) # {}
    THEN [error |-> "CSV missing required columns", rows |-> <<>>]
    ELSE [error |-> "", rows |-> CleanRows(uploaded.rows)]

\* handle_csv_upload(uploaded), given ReadCsv(uploaded):
\* [store, cache, raised, count, msg]
handle_csv_upload(w, parsed, up) ==
    LET same == [store |-> w.store, cache |-> w.cache, raised |-> FALSE, count |-> 0]
    IN  IF parsed.error # ""
        THEN same @@ [msg |-> parsed.error]
        ELSE LET o == UpsertLoop(same, parsed.rows, 1, up)
             IN  o @@ [msg |-> IF o.raised THEN "" ELSE "CSV processed successfully."]

\* ------------------------------------------------------------- show_admin
\* packages in the order of Python's string comparison
PackageOrder ==
    <<"TN-32", "TN-33", "TN-34", "TN-58", "TN-59", "TN-60", "TN-95", "TN-96", "TN-97">>

PackageRank(p) == CHOOSE i \in DOMAIN PackageOrder : PackageOrder[i] = p

\* a sorts before b under sort_values(["date", "package"], ascending=[False, True])
PreviewBefore(a, b) ==
    \/ a.date > b.date
    \/ a.date = b.date /\ PackageRank(a.package) < PackageRank(b.package)

RECURSIVE InsertSorted(_, _)
InsertSorted(s, r) ==
    IF s = <<>> THEN <<r>>
    ELSE IF PreviewBefore(r, Head(s)) THEN <<r>> \o s
    ELSE <<Head(s)>> \o InsertSorted(Tail(s), r)

RECURSIVE SortPreview(_)
SortPreview(df) ==
    IF df = <<>> THEN <<>> ELSE InsertSorted(SortPreview(Tail(df)), Head(df))

\* df_all.sort_values(["date", "package"], ascending=[False, True]).head(20)
Preview(df_all) ==
    LET sorted == SortPreview(df_all)
    IN  SubSeq(sorted, 1, IF Len(sorted) < PreviewRows THEN Len(sorted) ELSE PreviewRows)

AdminPage(msg) == [BlankPage EXCEPT !.mode = "Admin Panel", !.msg = msg]

\* the end of show_admin: the page with the preview of load_data()'s frame,
\* or the exception when load_data raises
WithPreview(pg, o) ==
    IF o.raised THEN [pg EXCEPT !.exc = "load_data"]
    ELSE [pg EXCEPT !.preview = Preview(o.df)]

\* ------------------------------------------------------------------ inputs
\* values typed into the six number inputs of the form (each >= 0)
FormSamples == {Nums(1, 2, 1, 3, 2, 1)}

\* the numeric cells of a CSV line: clean, and with text / missing /
\* negative cells
CsvNumSamples ==
    {[wc_mi |-> IntCell(2), dt |-> IntCell(2), ci |-> IntCell(0), mi |-> IntCell(1),
      in_house |-> IntCell(1), supervisory |-> IntCell(3)],
     [wc_mi |-> IntCell(1), dt |-> TextCell, ci |-> MissingCell, mi |-> IntCell(-1),
      in_house |-> IntCell(2), supervisory |-> IntCell(0)]}

CsvLines ==
    {[date |-> DateCell(1), package |-> <<" ", ALLOWED_PACKAGES[1], " ">>, nums |-> n] :
        n \in CsvNumSamples}
    \cup
    {[date |-> BadDateCell, package |-> <<ALLOWED_PACKAGES[1]>>, nums |-> n] :
        n \in CsvNumSamples \cap {x \in CsvNumSamples : x.dt = TextCell}}
    \cup
    {[date |-> DateCell(1), package |-> <<"TN-00">>, nums |-> n] :
        n \in CsvNumSamples \cap {x \in CsvNumSamples : x.dt = TextCell}}

FullHeader ==
    <<<<"Date">>, <<"Package">>, <<" ", "WC-MI">>, <<"DT">>, <<"CI">>, <<"MI">>,
      <<"IN-HOUSE">>, <<"Supervisory", " ">>, <<"sum">>>>

\* uploaded files: unreadable, lacking a column, and every file of at most
\* two lines
CsvFiles ==
    {[readable |-> FALSE, columns |-> <<>>, rows |-> <<>>],
     [readable |-> TRUE, columns |-> SubSeq(FullHeader, 1, 7), rows |-> <<>>]}
    \cup
    {[readable |-> TRUE, columns |-> FullHeader, rows |-> rs] :
        rs \in {<<>>} \cup {<<a>> : a \in CsvLines} \cup {<<a, b>> : a, b \in CsvLines}}

\* ReadCsv of every file of CsvFiles
ParsedCsv == [f \in CsvFiles |-> ReadCsv(f)]

Logins == {ADMIN_USER, "guest"} \X {ADMIN_PASS, "wrong"}

\* ----------------------------------------------------------------- actions
Init ==
    /\ store = EmptyBag
    /\ cache = <<>>
    /\ is_admin = FALSE
    /\ page = BlankPage
    /\ writer = IdleWriter
    /\ reader = IdleReader

World == [store |-> store, cache |-> cache]

\* a run with mode = "Dashboard"; db_ok: the store serves the run's query
\* (a run that finds the frame cached makes no query)
DashboardRun(db_ok) ==
    /\ cache # <<>> => db_ok
    /\ \E o \in load_data(World, db_ok) :
        /\ cache' = o.cache
        /\ IF o.raised
           THEN page' = [BlankPage EXCEPT !.mode = "Dashboard", !.exc = "load_data"]
           ELSE \E in \in DashboardInputs(o.df) :
                    page' = show_dashboard(o.df, in.view, in.start, in.end, in.pkg)
        /\ UNCHANGED <<store, is_admin, sessions>>

\* a run with mode = "Admin Panel" before the login
AdminLogin(u, p, submitted) ==
    /\ ~is_admin
    /\ IF submitted /\ u = ADMIN_USER /\ p = ADMIN_PASS
       THEN is_admin' = TRUE /\ page' = AdminPage("Logged in")
       ELSE /\ is_admin' = is_admin
            /\ page' = AdminPage(IF submitted THEN "Incorrect username or password." ELSE "")
    /\ UNCHANGED <<store, cache, sessions>>

\* a run of the admin panel with no button pressed and no file uploaded
AdminView(db_ok) ==
    /\ is_admin
    /\ cache # <<>> => db_ok
    /\ \E o \in load_data(World, db_ok) :
          /\ cache' = o.cache
          /\ page' = WithPreview(AdminPage("Logged In"), o)
    /\ UNCHANGED <<store, is_admin, sessions>>

\* a run of the admin panel with "Save / Update Row" pressed; the store
\* serves the first `up` calls of the run
AdminSave(d, pkg, n, up) ==
    /\ is_admin
    /\ LET row == MkRow(d, pkg, n)
           w == upsert_row(World, row, up >= 1)
       IN  /\ BagCardinality(w.store) <= MaxRows
           /\ store' = w.store
           /\ IF w.raised
              THEN /\ cache' = w.cache
                   /\ page' = [AdminPage("Logged In") EXCEPT !.exc = "upsert_row"]
              ELSE \E o \in load_data(w, up >= 2) :
                      /\ cache' = o.cache
                      /\ page' = WithPreview([AdminPage("Saved data") EXCEPT !.row = row], o)
    /\ UNCHANGED <<is_admin, sessions>>

\* a run of the admin panel with a file in the uploader
AdminCsv(uploaded, up) ==
    /\ is_admin
    /\ up <= Len(ParsedCsv[uploaded].rows) + 1
    /\ LET w == handle_csv_upload(World, ParsedCsv[uploaded], up)
       IN  /\ BagCardinality(w.store) <= MaxRows
           /\ store' = w.store
           /\ IF w.raised
              THEN /\ cache' = w.cache
                   /\ page' = [AdminPage("Logged In") EXCEPT !.exc = "upsert_row",
                                                             !.count = w.count]
              ELSE \E o \in load_data(w, up > w.count) :
                      /\ cache' = o.cache
                      /\ page' = WithPreview([AdminPage(w.msg) EXCEPT !.count = w.count], o)
    /\ UNCHANGED <<is_admin, sessions>>

Next ==
    \/ \E db_ok \in BOOLEAN : DashboardRun(db_ok)
    \/ \E l \in Logins, submitted \in BOOLEAN : AdminLogin(l[1], l[2], submitted)
    \/ \E db_ok \in BOOLEAN : AdminView(db_ok)
    \/ \E d \in Dates, pkg \in Packages, n \in FormSamples, up \in 0..2 :
          AdminSave(d, pkg, n, up)
    \/ \E uploaded \in CsvFiles, up \in 0..3 : AdminCsv(uploaded, up)

Spec == Init /\ [][Next]_vars

\* ------------------------------------------- two sessions, one cache
\* st.cache_data keeps one entry of load_data for the whole server, and every
\* session runs the script in a thread of its own.  Here one session is in
\* upsert_row and another in load_data, each taking the steps of its
\* function one at a time, in any order.

\* rows the writer may save: the form's and the CSV loop's
WriterRows ==
    {MkRow(d, p, n) : d \in Dates, p \in Packages, n \in FormSamples}
    \cup UNION {Range(ParsedCsv[f].rows) : f \in CsvFiles}

\* upsert_row, `with engine.begin() as conn: conn.execute(stmt, row)`: the
\* transaction commits, or raises and upsert_row is left before clear_cache()
UpsertCommit(row, db_ok) ==
    /\ writer.pc = "idle"
    /\ LET t == Transaction(store, row, db_ok)
       IN  /\ BagCardinality(t.table) <= MaxRows
           /\ store' = t.table
           /\ writer' = IF t.committed
                         THEN [writer EXCEPT !.pc = "committed", !.row = row]
                         ELSE writer
    /\ UNCHANGED <<cache, is_admin, page, reader>>

\* upsert_row, `clear_cache()`: load_data.clear(), then upsert_row returns
ClearCache ==
    /\ writer.pc = "committed"
    /\ cache' = <<>>
    /\ writer' = [writer EXCEPT !.pc = "idle", !.done = writer.row]
    /\ UNCHANGED <<store, is_admin, page, reader>>

\* load_data() is called: a cached frame is returned, a miss runs the body
CacheLookup ==
    /\ reader.pc = "idle"
    /\ reader' = IF cache # <<>>
                 THEN [pc |-> "idle", df |-> cache[1]]
                 ELSE [pc |-> "miss", df |-> <<>>]
    /\ UNCHANGED <<store, cache, is_admin, page, writer>>

\* the body of load_data: the query and the derived columns; a failed query
\* raises and nothing is cached
ReadStore(db_ok) ==
    /\ reader.pc = "miss"
    /\ IF db_ok
       THEN \E q \in QueryResults(store) :
                reader' = [pc |-> "computed", df |-> Prepare(q)]
       ELSE reader' = IdleReader
    /\ UNCHANGED <<store, cache, is_admin, page, writer>>

\* the frame the body returned is put in the cache and handed to the caller
StoreResult ==
    /\ reader.pc = "computed"
    /\ cache' = <<reader.df>>
    /\ reader' = [reader EXCEPT !.pc = "idle"]
    /\ UNCHANGED <<store, is_admin, page, writer>>

\* the writer's session is logged in: the form and the uploader are behind
\* the login
SharedInit ==
    /\ store = EmptyBag
    /\ cache = <<>>
    /\ is_admin = TRUE
    /\ page = BlankPage
    /\ writer = IdleWriter
    /\ reader = IdleReader

SharedNext ==
    \/ \E row \in WriterRows, db_ok \in BOOLEAN : UpsertCommit(row, db_ok)
    \/ ClearCache
    \/ CacheLookup
    \/ \E db_ok \in BOOLEAN : ReadStore(db_ok)
    \/ StoreResult

SharedSpec == SharedInit /\ [][SharedNext]_vars

\* ------------------------------------------------------------ properties
SixFields(r) == <<r.wc_mi, r.dt, r.ci, r.mi, r.in_house, r.supervisory>>

RawRow(r) == MkRow(r.date, r.package, r)

\* the rows of a frame, as a bag of table rows
RECURSIVE DfBag(_)
DfBag(df) ==
    IF df = <<>> THEN EmptyBag ELSE SetToBag({RawRow(Head(df))}) (+) DfBag(Tail(df))

\* the sum of column c over the rows `rows` of the table
RECURSIVE FieldTotal(_, _, _)
FieldTotal(rows, table, c) ==
    IF rows = {} THEN 0
    ELSE LET r == CHOOSE x \in rows : TRUE
         IN  table[r] * r[c] + FieldTotal(rows \ {r}, table, c)

Saved == page.msg = "Saved data"
WriteFailed == page.exc = "upsert_row"

\* C1: the store never holds two rows with one (date, package) key; a saved
\* row whose key was stored replaces the six fields of that row and adds no
\* row, a saved row with a new key adds one row, and in both cases every
\* row of another key stays as it was.
UniqueKeys ==
    /\ \A r \in BagToSet(store) : store[r] = 1
    /\ \A r, q \in BagToSet(store) : r.date = q.date /\ r.package = q.package => r = q

SaveEffect ==
    page'.msg = "Saved data" =>
        LET row == page'.row
            hit == Conflicts(store, row)
            others == BagToSet(store) \ hit
        IN  /\ BagIn(row, store') /\ store'[row] = 1
            /\ \A r \in others : BagIn(r, store') /\ store'[r] = store[r]
            /\ BagToSet(store') = others \cup {row}
            /\ BagCardinality(store') = BagCardinality(store) + (IF hit = {} THEN 1 ELSE 0)

C1_UniqueKeyUpsert == [](UniqueKeys) /\ [][SaveEffect]_vars

\* a CSV upload wrote the same key twice and one row is stored
C1_Witness ==
    /\ page.msg = "CSV processed successfully." /\ page.count = 2
    /\ BagCardinality(store) = 1

\* C2: every dashboard run with start <= end draws one row per calendar day
\* of [start, end], in ascending order.
C2_DenseRange ==
    (page.mode = "Dashboard" /\ page.start # 0 /\ page.start <= page.end) =>
        /\ page.rendered
        /\ Len(page.grp) = page.end - page.start + 1
        /\ \A i \in DOMAIN page.grp : page.grp[i].date = page.start + i - 1

\* C3: a cached frame always holds exactly the rows of the store, the
\* preview drawn after a successful save shows the saved row, and a save
\* whose preview could not be read leaves no frame cached.
C3_ReadsSeeWrites ==
    /\ cache # <<>> => DfBag(cache[1]) = store
    /\ (Saved /\ page.exc = "") =>
          \E i \in DOMAIN page.preview : RawRow(page.preview[i]) = page.row
    /\ (Saved /\ page.exc = "load_data") => cache = <<>>

\* a save succeeded after an earlier write had been read
C3_Witness ==
    /\ Saved /\ page.exc = "" /\ Len(page.preview) = 2 /\ cache # <<>>

\* C4: in every reachable store, upsert_row applied twice with one row
\* leaves the store that applying it once leaves; and saving the row that
\* the previous run saved does not change the store.
CandidateRows ==
    {MkRow(d, p, n) : d \in Dates, p \in Packages, n \in FormSamples}
    \cup UNION {Range(ParsedCsv[f].rows) : f \in CsvFiles}

TwiceIsOnce ==
    \A row \in CandidateRows :
        LET once == upsert_row(World, row, TRUE)
            twice == upsert_row(once, row, TRUE)
        IN  twice.store = once.store

SaveAgain == (Saved /\ page'.msg = "Saved data" /\ page'.row = page.row) => store' = store

C4_Idempotent == [](TwiceIsOnce) /\ [][SaveAgain]_vars

\* a save of the key (day 1, first package) succeeded in a store of two rows
C4_Witness ==
    /\ Saved /\ page.row.date = 1 /\ page.row.package = ALLOWED_PACKAGES[1]
    /\ BagIn(page.row, store) /\ BagCardinality(store) = 2

\* C5: a run that ends in an exception of upsert_row reports no success,
\* and leaves the store as it was before the failed call: unchanged for the
\* form, and for a CSV upload changed by the lines before the failed one
\* only.
RECURSIVE ApplyRows(_, _, _)
ApplyRows(table, rows, k) ==
    IF k = 0 THEN table ELSE UpsertStmt(ApplyRows(table, rows, k - 1), rows[k])

FailedWriteEffect ==
    page'.exc = "upsert_row" =>
        /\ page'.msg = "Logged In"
        /\ page'.count = 0 => store' = store
        /\ page'.count > 0 =>
              \E f \in CsvFiles :
                  /\ Len(ParsedCsv[f].rows) > page'.count
                  /\ store' = ApplyRows(store, ParsedCsv[f].rows, page'.count)

SuccessMeansStored == page'.msg = "Saved data" => BagIn(page'.row, store')

C5_FailedWriteLeavesStore == [][FailedWriteEffect /\ SuccessMeansStored]_vars

\* the second line of a CSV upload failed after the first was stored
C5_Witness == WriteFailed /\ page.count = 1 /\ BagCardinality(store) = 1

\* C6: every stored numeric field is a non-negative integer.
C6_NonNegative ==
    \A r \in BagToSet(store) : \A i \in 1..6 : SixFields(r)[i] \in Nat

\* C7: a dashboard run with start > end shows the validation error and
\* nothing else: graph_and_table is not called, no KPI, chart or table.
C7_RejectsInvertedRange ==
    (page.mode = "Dashboard" /\ page.start > page.end) =>
        /\ page.msg = "Start Date cannot be after End Date."
        /\ ~page.called /\ ~page.rendered
        /\ page.grp = <<>> /\ page.kpi = NoKpi

C7_Witness ==
    /\ page.mode = "Dashboard" /\ page.start > page.end
    /\ page.msg = "Start Date cannot be after End Date."

\* C8: the frame drawn has one row for each date of [start, end] that has a
\* stored observation (of the selected package in Package Wise View, of any
\* package in Combined View), and each of its six fields is the sum of that
\* field over exactly those observations.
Matching(d) ==
    {r \in BagToSet(store) :
        /\ r.date = d /\ d >= page.start /\ d <= page.end
        /\ page.view = "Package Wise View" => r.package = page.pkg}

C8_SumsOfMatchingRows ==
    page.called =>
        /\ {page.grp[i].date : i \in DOMAIN page.grp} = {d \in Dates : Matching(d) # {}}
        /\ \A i \in DOMAIN page.grp : \A c \in Range(num_cols) :
              page.grp[i][c] = FieldTotal(Matching(page.grp[i].date), store, c)

\* Package Wise View drawn while another package has a row on a drawn date
C8_Witness ==
    /\ page.rendered /\ page.view = "Package Wise View"
    /\ \E r \in BagToSet(store) :
          /\ r.package # page.pkg
          /\ \E i \in DOMAIN page.grp : page.grp[i].date = r.date

\* C9: the peak KPIs name the maximum of Total_WC_DT (Total_Manpower) over
\* the rows drawn, and the earliest date that attains it.
PeakIs(c, value, day) ==
    /\ \E i \in DOMAIN page.grp : page.grp[i][c] = value /\ page.grp[i].date = day
    /\ \A i \in DOMAIN page.grp :
          /\ page.grp[i][c] <= value
          /\ page.grp[i][c] = value => day <= page.grp[i].date

C9_PeakIsEarliestMax ==
    page.rendered =>
        /\ PeakIs("Total_WC_DT", page.kpi.peak_install, page.kpi.peak_install_date)
        /\ PeakIs("Total_Manpower", page.kpi.peak_mp, page.kpi.peak_mp_date)

\* two dates tie for the maximum of both totals
C9_Witness ==
    /\ page.rendered /\ Len(page.grp) = 2
    /\ page.grp[1].Total_WC_DT = page.grp[2].Total_WC_DT
    /\ page.grp[1].Total_Manpower = page.grp[2].Total_Manpower
    /\ page.kpi.peak_install_date = page.grp[1].date

\* C10: in every row drawn, Total_WC_DT = wc_mi + dt and
\* Total_Manpower = ci + mi + in_house + supervisory.
C10_TotalsMatchComponents ==
    \A i \in DOMAIN page.grp :
        LET g == page.grp[i]
        IN  /\ g.Total_WC_DT = g.wc_mi + g.dt
            /\ g.Total_Manpower = g.ci + g.mi + g.in_house + g.supervisory

\* Combined View drew a date that sums the rows of two packages
C10_Witness ==
    /\ page.rendered /\ page.view = "Combined View"
    /\ \E i \in DOMAIN page.grp :
          /\ Cardinality(Matching(page.grp[i].date)) = 2
          /\ page.grp[i].supervisory > 0

\* C11: with one session in upsert_row and another in load_data, whenever
\* upsert_row has returned and the cache holds a frame, the frame has the
\* row that upsert_row committed.
C11_CacheHasCommittedWrite ==
    (writer.pc = "idle" /\ writer.done # NoRow /\ cache # <<>>)
        => BagIn(writer.done, DfBag(cache[1]))

====
